---- MODULE Spec2Model ----
(***************************************************************************)
(* State-machine model of src/main.py: the teacher achievement dashboard.  *)
(* The state is the two database tables (users, achievements) together     *)
(* with the last HTTP request handled and the response it produced.  Every *)
(* route handler that reads or writes the tables is one action; a request  *)
(* runs to completion before the next one starts (one unit of work per     *)
(* request, see get_db).                                                   *)
(***************************************************************************)
EXTENDS Integers, Sequences, FiniteSets, TLC

VARIABLES users, achievements, req, resp

vars == <<users, achievements, req, resp>>

(***************************************************************************)
(* Bounds of the model.                                                    *)
(***************************************************************************)
MaxUserId == 2
MaxAchId == 2

UserIds == 1..MaxUserId
AchIds == 1..MaxAchId

(***************************************************************************)
(* Python's None, for nullable columns and optional form fields.           *)
(***************************************************************************)
None == "<None>"

\* `if x:` on an optional string: None and the empty string are falsy
Truthy(s) == s # None /\ s # ""

(***************************************************************************)
(* Tables.  A table is a function from the primary keys in use to rows.    *)
(***************************************************************************)
EmptyTable == [k \in {} |-> k]

Insert(table, k, row) ==
    [x \in (DOMAIN table) \cup {k} |-> IF x = k THEN row ELSE table[x]]

Delete(table, keys) ==
    [x \in (DOMAIN table) \ keys |-> table[x]]

\* Integer primary key: the database hands out a key above every key in
\* use (SQLite: exactly max+1; a PostgreSQL sequence: possibly higher).
\* The keyspace bounds the model: an insert into a table whose highest key
\* is the bound is not taken.
NewKeys(table, keyspace) ==
    {k \in keyspace : \A x \in DOMAIN table : k > x}

(***************************************************************************)
(* Session and password-reset tokens (itsdangerous).  A token carries the  *)
(* signed user id, the salt it was signed with and whether it is older     *)
(* than the max_age of the place that loads it.                            *)
(***************************************************************************)
NoUser == 0

NoToken == [uid |-> NoUser, salt |-> "absent", expired |-> FALSE]
ForgedToken == [uid |-> NoUser, salt |-> "forged", expired |-> FALSE]

SessionToken(uid) == [uid |-> uid, salt |-> "itsdangerous", expired |-> FALSE]
ResetToken(uid) == [uid |-> uid, salt |-> "password-reset", expired |-> FALSE]
Expire(tok) == [tok EXCEPT !.expired = TRUE]

\* Mutant: max_age is not passed; the age of the token is not checked.
loads_ok_NoMaxAge(tok, salt) == tok.salt = salt

\* serializer.loads(token, salt=..., max_age=...): TRUE when it returns
loads_ok(tok, salt) == tok.salt = salt /\ ~tok.expired

get_current_user(tok) ==
    IF tok = NoToken THEN NoUser
    ELSE IF loads_ok(tok, "itsdangerous") /\ tok.uid \in DOMAIN users
         THEN tok.uid
         ELSE NoUser

\* `user.is_admin` of the current user, FALSE when there is none
IsAdminActor(uid) == uid # NoUser /\ users[uid].is_admin

(***************************************************************************)
(* Responses.                                                              *)
(***************************************************************************)
\* status, kind and body (the redirect url or the template name), the
\* template's error/success message, the reset link shown on the page and
\* the session cookie set (the last two hold at most one token), and the
\* ranking a page is rendered with
Response(status, kind, body) ==
    [status |-> status, kind |-> kind, body |-> body,
     error |-> None, success |-> None, reset_link |-> {}, cookie |-> {},
     user_data |-> <<>>, top_teachers |-> <<>>]

Redirect(url, status) == Response(status, "redirect", url)
Forbidden == Response(403, "HTTPException", "")
TemplateError(name, error) == [Response(200, "template", name) EXCEPT !.error = error]
TemplateSuccess(name, success) == [Response(200, "template", name) EXCEPT !.success = success]
Html(body) == Response(200, "html", body)
SetCookie(r, tok) == [r EXCEPT !.cookie = {tok}]

\* The request as the handler sees it: the route, the current user the
\* cookie resolves to, the id in the path and the submitted form.
Request(op, tok, id, args) ==
    [op |-> op, uid |-> get_current_user(tok), id |-> id, args |-> args]

NoArgs == <<>>

(***************************************************************************)
(* Scoring: the points computed by add_achievement.                        *)
(***************************************************************************)
Get(table, key, default) ==
    IF key \in DOMAIN table THEN table[key] ELSE default

\* Mutant: the rows of regional and national are exchanged.
points_table_RowsSwapped ==
    ("city" :> (("1" :> 35) @@ ("2" :> 30) @@ ("3" :> 25) @@ ("certificate" :> 10)))
    @@ ("regional" :> (("1" :> 45) @@ ("2" :> 40) @@ ("3" :> 35) @@ ("certificate" :> 20)))
    @@ ("national" :> (("1" :> 40) @@ ("2" :> 35) @@ ("3" :> 30) @@ ("certificate" :> 15)))
    @@ ("international" :> (("1" :> 50) @@ ("2" :> 45) @@ ("3" :> 40) @@ ("certificate" :> 25)))

points_table ==
    ("city" :> (("1" :> 35) @@ ("2" :> 30) @@ ("3" :> 25) @@ ("certificate" :> 10)))
    @@ ("regional" :> (("1" :> 40) @@ ("2" :> 35) @@ ("3" :> 30) @@ ("certificate" :> 15)))
    @@ ("national" :> (("1" :> 45) @@ ("2" :> 40) @@ ("3" :> 35) @@ ("certificate" :> 20)))
    @@ ("international" :> (("1" :> 50) @@ ("2" :> 45) @@ ("3" :> 40) @@ ("certificate" :> 25)))

years_points ==
    ("0_1" :> 10) @@ ("1_2" :> 15) @@ ("2_3" :> 20) @@ ("3_plus" :> 25)

social_events_points ==
    ("city" :> 10) @@ ("regional" :> 15) @@ ("national" :> 20)

\* Mutant: the volunteering branch uses the level_points of social_events.
volunteering_points_AsSocialEvents ==
    ("city" :> 10) @@ ("regional" :> 15) @@ ("national" :> 20)

volunteering_points ==
    ("city" :> 25) @@ ("regional" :> 30) @@ ("national" :> 35)

participation_points ==
    ("up_to_40" :> 10) @@ ("up_to_70" :> 20) @@ ("up_to_90" :> 30)

\* Mutant: the flat 10 points are the `else` of the tarbie_arnasy branch.
calculated_points_FlatFallback(f) ==
    IF f.achievement_type \in {"oqushy_status", "sapa_qorzhyn"}
       /\ Truthy(f.level) /\ Truthy(f.place)
    THEN Get(Get(points_table, f.level, EmptyTable), f.place, 0)
    ELSE IF f.achievement_type = "qogam_serpin"
    THEN IF f.category = "methodical_leader" /\ Truthy(f.years_experience)
         THEN Get(years_points, f.years_experience, 0)
         ELSE IF f.category = "social_events" /\ Truthy(f.level)
         THEN Get(social_events_points, f.level, 0)
         ELSE IF f.category = "volunteering" /\ Truthy(f.level)
         THEN Get(volunteering_points, f.level, 0)
         ELSE 0
    ELSE IF f.achievement_type = "tarbie_arnasy"
    THEN IF f.category = "class_management" /\ Truthy(f.years_experience)
         THEN Get(years_points, f.years_experience, 0)
         ELSE IF f.category = "parent_voice" /\ Truthy(f.parent_participation)
         THEN Get(participation_points, f.parent_participation, 0)
         ELSE 10
    ELSE 0

calculated_points(f) ==
    IF f.achievement_type \in {"oqushy_status", "sapa_qorzhyn"}
       /\ Truthy(f.level) /\ Truthy(f.place)
    THEN Get(Get(points_table, f.level, EmptyTable), f.place, 0)
    ELSE IF f.achievement_type = "qogam_serpin"
    THEN IF f.category = "methodical_leader" /\ Truthy(f.years_experience)
         THEN Get(years_points, f.years_experience, 0)
         ELSE IF f.category = "social_events" /\ Truthy(f.level)
         THEN Get(social_events_points, f.level, 0)
         ELSE IF f.category = "volunteering" /\ Truthy(f.level)
         THEN Get(volunteering_points, f.level, 0)
         ELSE 0
    ELSE IF f.achievement_type = "tarbie_arnasy"
    THEN IF f.category = "class_management" /\ Truthy(f.years_experience)
         THEN Get(years_points, f.years_experience, 0)
         ELSE IF f.category = "parent_voice" /\ Truthy(f.parent_participation)
         THEN Get(participation_points, f.parent_participation, 0)
         ELSE IF f.category = "specialist_cooperation"
         THEN 10
         ELSE 0
    ELSE 0

(***************************************************************************)
(* Uploaded files and the media host.                                      *)
(***************************************************************************)
MaxUploadBytes == 10 * 1024 * 1024

NoFile == [given |-> FALSE, filename |-> "", size |-> 0]
Upload(filename, size) == [given |-> TRUE, filename |-> filename, size |-> size]

\* `if file and file.filename:`
HasFile(file) == file.given /\ file.filename # ""

\* upload_result['secure_url'] of a successful cloudinary upload
SecureUrl(file) == "https://res.cloudinary.com/jetistik_hub/" \o file.filename

\* achievement_type.replace('_', '-') in the redirect urls
Dashed(t) ==
    CASE t = "oqushy_status" -> "oqushy-status"
      [] t = "sapa_qorzhyn" -> "sapa-qorzhyn"
      [] t = "qogam_serpin" -> "qogam-serpin"
      [] t = "tarbie_arnasy" -> "tarbie-arnasy"
      [] OTHER -> t

(***************************************************************************)
(* POST /add-achievement                                                   *)
(***************************************************************************)
\* Mutant: a submission that scores nothing is not queued for moderation.
NewAchievement_StatusByPoints(uid, f, file_path) ==
    [user_id          |-> uid,
     achievement_type |-> f.achievement_type,
     student_name     |-> f.student_name,
     title            |-> f.title,
     description      |-> f.description,
     category         |-> f.category,
     level            |-> f.level,
     place            |-> f.place,
     file_path        |-> file_path,
     points           |-> calculated_points(f),
     status           |-> IF calculated_points(f) = 0 THEN "rejected" ELSE "pending"]

NewAchievement(uid, f, file_path) ==
    [user_id          |-> uid,
     achievement_type |-> f.achievement_type,
     student_name     |-> f.student_name,
     title            |-> f.title,
     description      |-> f.description,
     category         |-> f.category,
     level            |-> f.level,
     place            |-> f.place,
     file_path        |-> file_path,
     points           |-> calculated_points(f),
     status           |-> "pending"]

\* Mutant: the size check is `len(content) >= 10 * 1024 * 1024`.
add_achievement_LimitExclusive(tok, f, file, upload_ok) ==
    LET user == get_current_user(tok)
        page == "/" \o Dashed(f.achievement_type)
    IN  /\ req' = Request("add_achievement", tok, NoUser, <<file, upload_ok>>)
        /\ users' = users
        /\ IF user = NoUser
           THEN /\ resp' = Redirect("/login", 307)
                /\ achievements' = achievements
           ELSE IF HasFile(file) /\ file.size >= MaxUploadBytes
           THEN /\ resp' = Redirect(page \o "?error=file_too_large", 303)
                /\ achievements' = achievements
           ELSE IF HasFile(file) /\ ~upload_ok
           THEN /\ resp' = Redirect(page \o "?error=upload_failed", 303)
                /\ achievements' = achievements
           ELSE /\ \E new_id \in NewKeys(achievements, AchIds) :
                      achievements' =
                          Insert(achievements, new_id,
                                 NewAchievement(user, f,
                                     IF HasFile(file) THEN SecureUrl(file) ELSE None))
                /\ resp' = Redirect(page \o "?success=added", 303)

\* Mutant: the `except` of the upload logs the error and goes on without
\* a file reference.
add_achievement_IgnoreUploadError(tok, f, file, upload_ok) ==
    LET user == get_current_user(tok)
        page == "/" \o Dashed(f.achievement_type)
    IN  /\ req' = Request("add_achievement", tok, NoUser, <<file, upload_ok>>)
        /\ users' = users
        /\ IF user = NoUser
           THEN /\ resp' = Redirect("/login", 307)
                /\ achievements' = achievements
           ELSE IF HasFile(file) /\ file.size > MaxUploadBytes
           THEN /\ resp' = Redirect(page \o "?error=file_too_large", 303)
                /\ achievements' = achievements
           ELSE /\ \E new_id \in NewKeys(achievements, AchIds) :
                      achievements' =
                          Insert(achievements, new_id,
                                 NewAchievement(user, f,
                                     IF HasFile(file) /\ upload_ok
                                     THEN SecureUrl(file) ELSE None))
                /\ resp' = Redirect(page \o "?success=added", 303)

add_achievement(tok, f, file, upload_ok) ==
    LET user == get_current_user(tok)
        page == "/" \o Dashed(f.achievement_type)
    IN  /\ req' = Request("add_achievement", tok, NoUser, <<file, upload_ok>>)
        /\ users' = users
        /\ IF user = NoUser
           THEN /\ resp' = Redirect("/login", 307)
                /\ achievements' = achievements
           ELSE IF HasFile(file) /\ file.size > MaxUploadBytes
           THEN /\ resp' = Redirect(page \o "?error=file_too_large", 303)
                /\ achievements' = achievements
           ELSE IF HasFile(file) /\ ~upload_ok
           THEN /\ resp' = Redirect(page \o "?error=upload_failed", 303)
                /\ achievements' = achievements
           ELSE /\ \E new_id \in NewKeys(achievements, AchIds) :
                      achievements' =
                          Insert(achievements, new_id,
                                 NewAchievement(user, f,
                                     IF HasFile(file) THEN SecureUrl(file) ELSE None))
                /\ resp' = Redirect(page \o "?success=added", 303)

(***************************************************************************)
(* POST /achievement/{achievement_id}/approve, .../reject, .../delete      *)
(***************************************************************************)
\* Mutant: the guard is `if not user`; any signed-in user may approve.
approve_achievement_AnyUser(tok, achievement_id) ==
    LET user == get_current_user(tok)
    IN  /\ req' = Request("approve_achievement", tok, achievement_id, NoArgs)
        /\ users' = users
        /\ IF user = NoUser
           THEN /\ resp' = Forbidden
                /\ achievements' = achievements
           ELSE /\ achievements' =
                      IF achievement_id \in DOMAIN achievements
                      THEN [achievements EXCEPT ![achievement_id].status = "approved"]
                      ELSE achievements
                /\ resp' = Redirect("/admin", 303)

\* Mutant: approve toggles; approving an approved record withdraws it.
approve_achievement_Toggle(tok, achievement_id) ==
    LET user == get_current_user(tok)
    IN  /\ req' = Request("approve_achievement", tok, achievement_id, NoArgs)
        /\ users' = users
        /\ IF ~IsAdminActor(user)
           THEN /\ resp' = Forbidden
                /\ achievements' = achievements
           ELSE /\ achievements' =
                      IF achievement_id \in DOMAIN achievements
                      THEN [achievements EXCEPT ![achievement_id].status =
                               IF @ = "approved" THEN "pending" ELSE "approved"]
                      ELSE achievements
                /\ resp' = Redirect("/admin", 303)

\* Mutant: approving also recomputes the points, from the stored fields only.
approve_achievement_Rescore(tok, achievement_id) ==
    LET user == get_current_user(tok)
    IN  /\ req' = Request("approve_achievement", tok, achievement_id, NoArgs)
        /\ users' = users
        /\ IF ~IsAdminActor(user)
           THEN /\ resp' = Forbidden
                /\ achievements' = achievements
           ELSE /\ achievements' =
                      IF achievement_id \in DOMAIN achievements
                      THEN [achievements EXCEPT
                               ![achievement_id].status = "approved",
                               ![achievement_id].points =
                                   Get(social_events_points,
                                       achievements[achievement_id].level, 0)]
                      ELSE achievements
                /\ resp' = Redirect("/admin", 303)

approve_achievement(tok, achievement_id) ==
    LET user == get_current_user(tok)
    IN  /\ req' = Request("approve_achievement", tok, achievement_id, NoArgs)
        /\ users' = users
        /\ IF ~IsAdminActor(user)
           THEN /\ resp' = Forbidden
                /\ achievements' = achievements
           ELSE /\ achievements' =
                      IF achievement_id \in DOMAIN achievements
                      THEN [achievements EXCEPT ![achievement_id].status = "approved"]
                      ELSE achievements
                /\ resp' = Redirect("/admin", 303)

\* Mutant: reject sends the record back to the moderation queue.
reject_achievement_Requeue(tok, achievement_id) ==
    LET user == get_current_user(tok)
    IN  /\ req' = Request("reject_achievement", tok, achievement_id, NoArgs)
        /\ users' = users
        /\ IF ~IsAdminActor(user)
           THEN /\ resp' = Forbidden
                /\ achievements' = achievements
           ELSE /\ achievements' =
                      IF achievement_id \in DOMAIN achievements
                      THEN [achievements EXCEPT ![achievement_id].status = "pending"]
                      ELSE achievements
                /\ resp' = Redirect("/admin", 303)

reject_achievement(tok, achievement_id) ==
    LET user == get_current_user(tok)
    IN  /\ req' = Request("reject_achievement", tok, achievement_id, NoArgs)
        /\ users' = users
        /\ IF ~IsAdminActor(user)
           THEN /\ resp' = Forbidden
                /\ achievements' = achievements
           ELSE /\ achievements' =
                      IF achievement_id \in DOMAIN achievements
                      THEN [achievements EXCEPT ![achievement_id].status = "rejected"]
                      ELSE achievements
                /\ resp' = Redirect("/admin", 303)

delete_achievement(tok, achievement_id) ==
    LET user == get_current_user(tok)
    IN  /\ req' = Request("delete_achievement", tok, achievement_id, NoArgs)
        /\ users' = users
        /\ IF user = NoUser
           THEN /\ resp' = Forbidden
                /\ achievements' = achievements
           ELSE /\ achievements' =
                      IF /\ achievement_id \in DOMAIN achievements
                         /\ \/ achievements[achievement_id].user_id = user
                            \/ users[user].is_admin
                      THEN Delete(achievements, {achievement_id})
                      ELSE achievements
                /\ resp' = Redirect("/jeke-cabinet", 303)

(***************************************************************************)
(* Accounts.  Passwords are sequences of characters; user names are        *)
(* strings.                                                                *)
(***************************************************************************)
ALLOW_REGISTRATION == TRUE

Min(a, b) == IF a < b THEN a ELSE b

\* password.encode('utf-8')[:72], hashed; the salt does not affect checkpw
hash_password(password) ==
    <<"bcrypt", SubSeq(password, 1, Min(72, Len(password)))>>

check_password(user_id, password) ==
    users[user_id].password_hash = hash_password(password)

\* db.query(User).filter(User.username == username).first()
UserByName(username) ==
    IF \E u \in DOMAIN users : users[u].username = username
    THEN CHOOSE u \in DOMAIN users :
             /\ users[u].username = username
             /\ \A v \in DOMAIN users : users[v].username = username => u <= v
    ELSE NoUser

(***************************************************************************)
(* POST /forgot-password, POST /reset-password/{token}, POST /login        *)
(***************************************************************************)
\* Neither key is in TRANSLATIONS, so t(key) returns the key and the page
\* shows the literal fallback text of each branch: two different texts.
forgot_password_page(user) ==
    IF user = NoUser
    THEN TemplateSuccess("forgot_password.html", "reset_link_sent (fallback text)")
    ELSE [TemplateSuccess("forgot_password.html", "reset_link_created (fallback text)")
          EXCEPT !.reset_link = {ResetToken(user)}]

forgot_password_post(username) ==
    /\ req' = Request("forgot_password_post", NoToken, NoUser, <<username>>)
    /\ UNCHANGED <<users, achievements>>
    /\ resp' = forgot_password_page(UserByName(username))

reset_password_post(token, new_password, confirm_password) ==
    /\ req' = Request("reset_password_post", NoToken, token.uid, NoArgs)
    /\ achievements' = achievements
    /\ IF ~loads_ok(token, "password-reset")
       THEN /\ resp' = TemplateError("reset_password.html", "reset_token_invalid")
            /\ users' = users
       ELSE IF Len(new_password) < 6
       THEN /\ resp' = TemplateError("reset_password.html", "error_short_password")
            /\ users' = users
       ELSE IF new_password # confirm_password
       THEN /\ resp' = TemplateError("reset_password.html", "error_passwords_dont_match")
            /\ users' = users
       ELSE IF token.uid \notin DOMAIN users
       THEN /\ resp' = TemplateError("reset_password.html", "user_not_found")
            /\ users' = users
       ELSE /\ users' = [users EXCEPT ![token.uid].password_hash =
                                          hash_password(new_password)]
            /\ resp' = Redirect("/login?success=password_reset", 303)

login_post(username, password) ==
    LET user == UserByName(username)
    IN  /\ req' = Request("login_post", NoToken, NoUser, <<username>>)
        /\ UNCHANGED <<users, achievements>>
        /\ IF user = NoUser \/ ~check_password(user, password)
           THEN resp' = TemplateError("login.html", "error_invalid_credentials")
           ELSE resp' = SetCookie(Redirect("/home", 303), SessionToken(user))

(***************************************************************************)
(* POST /register                                                          *)
(***************************************************************************)
\* Mutant: the role is read from an `is_admin` field of the posted form.
RegisteredUser_RoleFromForm(f) ==
    [username      |-> f.username,
     password_hash |-> hash_password(f.password),
     full_name     |-> f.full_name,
     school        |-> f.school,
     subject       |-> f.subject,
     category      |-> f.teacher_category,
     experience    |-> f.experience,
     is_admin      |-> "is_admin" \in f.undeclared]

\* `f.undeclared` (form fields that are no parameter of register_post) is
\* not read: is_admin is the literal False
RegisteredUser(f) ==
    [username      |-> f.username,
     password_hash |-> hash_password(f.password),
     full_name     |-> f.full_name,
     school        |-> f.school,
     subject       |-> f.subject,
     category      |-> f.teacher_category,
     experience    |-> f.experience,
     is_admin      |-> FALSE]

\* Mutant: the password check is `len(password) < 5`.
register_post_MinLen5(f) ==
    /\ req' = Request("register_post", NoToken, NoUser, <<f>>)
    /\ achievements' = achievements
    /\ IF ~ALLOW_REGISTRATION
       THEN /\ resp' = Redirect("/login", 307)
            /\ users' = users
       ELSE IF Len(f.username) < 3
       THEN /\ resp' = TemplateError("register.html", "error_short_username")
            /\ users' = users
       ELSE IF Len(f.password) < 5
       THEN /\ resp' = TemplateError("register.html", "error_short_password")
            /\ users' = users
       ELSE IF f.password # f.confirm_password
       THEN /\ resp' = TemplateError("register.html", "error_passwords_dont_match")
            /\ users' = users
       ELSE IF UserByName(f.username) # NoUser
       THEN /\ resp' = TemplateError("register.html", "error_username_exists")
            /\ users' = users
       ELSE \E new_id \in NewKeys(users, UserIds) :
                /\ users' = Insert(users, new_id, RegisteredUser(f))
                /\ resp' = SetCookie(Redirect("/home", 303), SessionToken(new_id))

register_post(f) ==
    /\ req' = Request("register_post", NoToken, NoUser, <<f>>)
    /\ achievements' = achievements
    /\ IF ~ALLOW_REGISTRATION
       THEN /\ resp' = Redirect("/login", 307)
            /\ users' = users
       ELSE IF Len(f.username) < 3
       THEN /\ resp' = TemplateError("register.html", "error_short_username")
            /\ users' = users
       ELSE IF Len(f.password) < 6
       THEN /\ resp' = TemplateError("register.html", "error_short_password")
            /\ users' = users
       ELSE IF f.password # f.confirm_password
       THEN /\ resp' = TemplateError("register.html", "error_passwords_dont_match")
            /\ users' = users
       ELSE IF UserByName(f.username) # NoUser
       THEN /\ resp' = TemplateError("register.html", "error_username_exists")
            /\ users' = users
       ELSE \E new_id \in NewKeys(users, UserIds) :
                /\ users' = Insert(users, new_id, RegisteredUser(f))
                /\ resp' = SetCookie(Redirect("/home", 303), SessionToken(new_id))

(***************************************************************************)
(* POST /update-profile                                                    *)
(***************************************************************************)
\* Mutant: the handler also writes the display name to the username.
update_profile_RenamesAccount(tok, f) ==
    LET user == get_current_user(tok)
    IN  /\ req' = Request("update_profile", tok, NoUser, <<f>>)
        /\ achievements' = achievements
        /\ IF user = NoUser
           THEN /\ resp' = Redirect("/login", 303)
                /\ users' = users
           ELSE /\ users' = [users EXCEPT ![user].full_name = f.full_name,
                                          ![user].username = f.full_name,
                                          ![user].school = f.school,
                                          ![user].subject = f.subject,
                                          ![user].experience = f.experience]
                /\ resp' = Redirect("/edit-profile?success=updated", 303)

update_profile(tok, f) ==
    LET user == get_current_user(tok)
    IN  /\ req' = Request("update_profile", tok, NoUser, <<f>>)
        /\ achievements' = achievements
        /\ IF user = NoUser
           THEN /\ resp' = Redirect("/login", 303)
                /\ users' = users
           ELSE \* teacher_category is assigned to an attribute that is no
                \* column of User: the category column keeps its value
                /\ users' = [users EXCEPT ![user].full_name = f.full_name,
                                          ![user].school = f.school,
                                          ![user].subject = f.subject,
                                          ![user].experience = f.experience]
                /\ resp' = Redirect("/edit-profile?success=updated", 303)

(***************************************************************************)
(* POST /create-user, POST /delete-user/{user_id}, GET /make-me-admin      *)
(***************************************************************************)
\* subject and category are not set (NULL); experience takes its default
CreatedUser(f) ==
    [username      |-> f.username,
     password_hash |-> hash_password(f.password),
     full_name     |-> f.full_name,
     school        |-> f.school,
     subject       |-> None,
     category      |-> None,
     experience    |-> 0,
     is_admin      |-> f.is_admin]

\* Mutant: the query for an account with the same username is missing.
create_user_NoNameCheck(tok, f) ==
    LET user == get_current_user(tok)
    IN  /\ req' = Request("create_user", tok, NoUser, <<f>>)
        /\ achievements' = achievements
        /\ IF ~IsAdminActor(user)
           THEN /\ resp' = Forbidden
                /\ users' = users
           ELSE /\ \E new_id \in NewKeys(users, UserIds) :
                      users' = Insert(users, new_id, CreatedUser(f))
                /\ resp' = Redirect("/admin?success=user_created", 303)

create_user(tok, f) ==
    LET user == get_current_user(tok)
    IN  /\ req' = Request("create_user", tok, NoUser, <<f>>)
        /\ achievements' = achievements
        /\ IF ~IsAdminActor(user)
           THEN /\ resp' = Forbidden
                /\ users' = users
           ELSE IF UserByName(f.username) # NoUser
           THEN /\ resp' = Redirect("/admin?error=username_exists", 303)
                /\ users' = users
           ELSE /\ \E new_id \in NewKeys(users, UserIds) :
                      users' = Insert(users, new_id, CreatedUser(f))
                /\ resp' = Redirect("/admin?success=user_created", 303)

\* Mutant: the user row is deleted without deleting its achievements.
delete_user_NoCascade(tok, user_id) ==
    LET user == get_current_user(tok)
    IN  /\ req' = Request("delete_user", tok, user_id, NoArgs)
        /\ IF ~IsAdminActor(user)
           THEN /\ resp' = Redirect("/home", 303)
                /\ UNCHANGED <<users, achievements>>
           ELSE IF user_id \notin DOMAIN users
           THEN /\ resp' = Redirect("/admin?error=user_not_found", 303)
                /\ UNCHANGED <<users, achievements>>
           ELSE IF user_id = user
           THEN /\ resp' = Redirect("/admin?error=cannot_delete_yourself", 303)
                /\ UNCHANGED <<users, achievements>>
           ELSE /\ achievements' = achievements
                /\ users' = Delete(users, {user_id})
                /\ resp' = Redirect("/admin?success=user_deleted", 303)

\* Mutant: the comparison of the target with the current user is missing.
delete_user_NoSelfCheck(tok, user_id) ==
    LET user == get_current_user(tok)
    IN  /\ req' = Request("delete_user", tok, user_id, NoArgs)
        /\ IF ~IsAdminActor(user)
           THEN /\ resp' = Redirect("/home", 303)
                /\ UNCHANGED <<users, achievements>>
           ELSE IF user_id \notin DOMAIN users
           THEN /\ resp' = Redirect("/admin?error=user_not_found", 303)
                /\ UNCHANGED <<users, achievements>>
           ELSE /\ achievements' =
                      Delete(achievements,
                             {a \in DOMAIN achievements :
                                  achievements[a].user_id = user_id})
                /\ users' = Delete(users, {user_id})
                /\ resp' = Redirect("/admin?success=user_deleted", 303)

\* Mutant: the guard is `if not user`; any signed-in user may delete.
delete_user_AnyActor(tok, user_id) ==
    LET user == get_current_user(tok)
    IN  /\ req' = Request("delete_user", tok, user_id, NoArgs)
        /\ IF user = NoUser
           THEN /\ resp' = Redirect("/home", 303)
                /\ UNCHANGED <<users, achievements>>
           ELSE IF user_id \notin DOMAIN users
           THEN /\ resp' = Redirect("/admin?error=user_not_found", 303)
                /\ UNCHANGED <<users, achievements>>
           ELSE IF user_id = user
           THEN /\ resp' = Redirect("/admin?error=cannot_delete_yourself", 303)
                /\ UNCHANGED <<users, achievements>>
           ELSE /\ achievements' =
                      Delete(achievements,
                             {a \in DOMAIN achievements :
                                  achievements[a].user_id = user_id})
                /\ users' = Delete(users, {user_id})
                /\ resp' = Redirect("/admin?success=user_deleted", 303)

delete_user(tok, user_id) ==
    LET user == get_current_user(tok)
    IN  /\ req' = Request("delete_user", tok, user_id, NoArgs)
        /\ IF ~IsAdminActor(user)
           THEN /\ resp' = Redirect("/home", 303)
                /\ UNCHANGED <<users, achievements>>
           ELSE IF user_id \notin DOMAIN users
           THEN /\ resp' = Redirect("/admin?error=user_not_found", 303)
                /\ UNCHANGED <<users, achievements>>
           ELSE IF user_id = user
           THEN /\ resp' = Redirect("/admin?error=cannot_delete_yourself", 303)
                /\ UNCHANGED <<users, achievements>>
           ELSE /\ achievements' =
                      Delete(achievements,
                             {a \in DOMAIN achievements :
                                  achievements[a].user_id = user_id})
                /\ users' = Delete(users, {user_id})
                /\ resp' = Redirect("/admin?success=user_deleted", 303)

make_me_admin(tok) ==
    LET user == get_current_user(tok)
    IN  /\ req' = Request("make_me_admin", tok, NoUser, NoArgs)
        /\ achievements' = achievements
        /\ IF user = NoUser
           THEN /\ resp' = Redirect("/login", 307)
                /\ users' = users
           ELSE /\ users' = [users EXCEPT ![user].is_admin = TRUE]
                /\ resp' = Html(users[user].username)

(***************************************************************************)
(* GET /admin and GET /moderate: the pages with the ranking of the         *)
(* accounts.  `all_users` is the list db.query(User).all() returns, which  *)
(* has no ORDER BY.                                                        *)
(***************************************************************************)
RECURSIVE Ascending(_)
\* the elements of a set of ids as a list in increasing order
Ascending(S) ==
    IF S = {} THEN <<>>
    ELSE LET m == CHOOSE x \in S : \A y \in S : x <= y
         IN  <<m>> \o Ascending(S \ {m})

Reversed(s) == [i \in 1..Len(s) |-> s[Len(s) + 1 - i]]

\* the orders in which the query may return the rows
FetchOrders(S) == {Ascending(S), Reversed(Ascending(S))}

RECURSIVE SumPoints(_)
\* sum(ach.points for ach in <list> if ach.status == 'approved')
SumPoints(list) ==
    IF list = <<>> THEN 0
    ELSE (IF achievements[Head(list)].status = "approved"
          THEN achievements[Head(list)].points ELSE 0)
         + SumPoints(Tail(list))

\* Mutant: the status filter is missing from the sum.
total_points_AnyStatus(u) ==
    LET RECURSIVE SumAll(_)
        SumAll(list) ==
            IF list = <<>> THEN 0
            ELSE achievements[Head(list)].points + SumAll(Tail(list))
    IN  SumAll(Ascending({a \in DOMAIN achievements : achievements[a].user_id = u}))

\* u.achievements is the relationship: the records whose user_id is u.id
total_points(u) ==
    SumPoints(Ascending({a \in DOMAIN achievements : achievements[a].user_id = u}))

user_data(all_users) ==
    [i \in 1..Len(all_users) |->
        [user |-> all_users[i], points |-> total_points(all_users[i])]]

RECURSIVE sort_reverse(_)
\* list.sort(key=lambda x: x['points'], reverse=True): a stable sort, rows
\* with equal points keep the order they had
sort_reverse(list) ==
    IF list = <<>> THEN <<>>
    ELSE LET n == Len(list)
             row == list[n]
             sorted == sort_reverse(SubSeq(list, 1, n - 1))
             k == Cardinality({i \in 1..Len(sorted) : sorted[i].points >= row.points})
         IN  SubSeq(sorted, 1, k) \o <<row>> \o SubSeq(sorted, k + 1, Len(sorted))

\* Mutant: the sort is missing; the rows stay in the order of the query.
admin_panel_Unsorted(tok, all_users) ==
    LET user == get_current_user(tok)
    IN  /\ req' = Request("admin_panel", tok, NoUser, NoArgs)
        /\ UNCHANGED <<users, achievements>>
        /\ IF ~IsAdminActor(user)
           THEN resp' = Redirect("/home", 307)
           ELSE resp' = [Response(200, "template", "admin.html")
                         EXCEPT !.user_data = user_data(all_users)]

admin_panel(tok, all_users) ==
    LET user == get_current_user(tok)
    IN  /\ req' = Request("admin_panel", tok, NoUser, NoArgs)
        /\ UNCHANGED <<users, achievements>>
        /\ IF ~IsAdminActor(user)
           THEN resp' = Redirect("/home", 307)
           ELSE resp' = [Response(200, "template", "admin.html")
                         EXCEPT !.user_data = sort_reverse(user_data(all_users))]

moderate_page(tok, all_users) ==
    LET user == get_current_user(tok)
        sorted == sort_reverse(user_data(all_users))
    IN  /\ req' = Request("moderate_page", tok, NoUser, NoArgs)
        /\ UNCHANGED <<users, achievements>>
        /\ IF ~IsAdminActor(user)
           THEN resp' = Redirect("/home", 307)
           ELSE resp' = [Response(200, "template", "moderate.html")
                         EXCEPT !.top_teachers = SubSeq(sorted, 1, Min(10, Len(sorted)))]

(***************************************************************************)
(* The requests the environment sends.                                     *)
(***************************************************************************)
Chars(n, c) == [i \in 1..n |-> c]

\* Cookies: none, a forged one, a session token of every user id, one that
\* is past its max_age, and a password-reset token sent as the cookie.
Tokens ==
    {NoToken, ForgedToken, Expire(SessionToken(1)), ResetToken(1)}
    \cup {SessionToken(u) : u \in UserIds}

\* Reset links: a reset token of every user id, one past its max_age, a
\* forged one and a session token sent as the reset token.
ResetTokens ==
    {ForgedToken, Expire(ResetToken(1)), SessionToken(1)}
    \cup {ResetToken(u) : u \in UserIds}

AchievementForm(type, category, level, place, years, participation) ==
    [achievement_type     |-> type,
     category             |-> category,
     level                |-> level,
     place                |-> place,
     years_experience     |-> years,
     parent_participation |-> participation,
     title                |-> "title",
     description          |-> "",
     student_name         |-> None]

AchievementForms ==
    {AchievementForm("oqushy_status", "olympiad", "international", "1", None, None)}

\* an uploaded file with the outcome of the media host's upload call
Uploads == {<<NoFile, TRUE>>}

\* names typed into the registration, login and reset forms (one is shorter
\* than three characters) and names an admin gives to the accounts it creates
Usernames == {"al", "ann", "bob"}

AdminChosenUsernames == {"ann", "bob"}

\* password and confirmation
PasswordPairs ==
    {<<Chars(6, "x"), Chars(6, "x")>>,
     <<Chars(5, "x"), Chars(5, "x")>>,
     <<Chars(6, "x"), Chars(5, "x")>>}

Profile(full_name, school, subject, teacher_category, experience) ==
    [full_name |-> full_name, school |-> school, subject |-> subject,
     teacher_category |-> teacher_category, experience |-> experience]

Profiles == {Profile("Teacher", "", "", "", 0)}

\* the form posted to /update-profile
ProfileUpdates == {Profile("Teacher", "School 1", "", "expert", 0)}

\* names of fields a client posts that are no parameter of the handler
UndeclaredFields == {{}, {"is_admin"}}

\* the posted registration form: the declared fields and the names of the
\* other fields the client added to the body
RegisterForm(username, pw, pr, undeclared) ==
    [username |-> username, password |-> pw[1], confirm_password |-> pw[2],
     full_name |-> pr.full_name, school |-> pr.school, subject |-> pr.subject,
     teacher_category |-> pr.teacher_category, experience |-> pr.experience,
     undeclared |-> undeclared]

RegisterForms ==
    {RegisterForm(n, pw, pr, x) :
        n \in Usernames, pw \in PasswordPairs, pr \in Profiles,
        x \in UndeclaredFields}

CreateUserForms ==
    {[username |-> n, password |-> Chars(6, "x"), full_name |-> "Teacher",
      school |-> "", is_admin |-> a] : n \in AdminChosenUsernames, a \in BOOLEAN}

(***************************************************************************)
(* The specification: an empty database (Base.metadata.create_all), then   *)
(* one request after another.                                              *)
(***************************************************************************)
Init ==
    /\ users = EmptyTable
    /\ achievements = EmptyTable
    /\ req = [op |-> "startup", uid |-> NoUser, id |-> NoUser, args |-> NoArgs]
    /\ resp = Response(200, "startup", "")

Next ==
    \/ \E f \in RegisterForms : register_post(f)
    \/ \E n \in Usernames, pw \in PasswordPairs : login_post(n, pw[1])
    \/ \E n \in Usernames : forgot_password_post(n)
    \/ \E tok \in ResetTokens, pw \in PasswordPairs :
           reset_password_post(tok, pw[1], pw[2])
    \/ \E tok \in Tokens, f \in ProfileUpdates : update_profile(tok, f)
    \/ \E tok \in Tokens, f \in AchievementForms, up \in Uploads :
           add_achievement(tok, f, up[1], up[2])
    \/ \E tok \in Tokens, id \in AchIds : approve_achievement(tok, id)
    \/ \E tok \in Tokens, id \in AchIds : reject_achievement(tok, id)
    \/ \E tok \in Tokens, id \in AchIds : delete_achievement(tok, id)
    \/ \E tok \in Tokens, f \in CreateUserForms : create_user(tok, f)
    \/ \E tok \in Tokens, id \in UserIds : delete_user(tok, id)
    \/ \E tok \in Tokens : make_me_admin(tok)

Spec == Init /\ [][Next]_vars

(***************************************************************************)
(* Submissions over the whole classification space.  The database starts   *)
(* in a state the requests above reach: an admin and a teacher, and every  *)
(* record key but the last taken by a record of one of them; the requests  *)
(* are submissions with every combination of the form's fields.            *)
(***************************************************************************)
SubmitTypes ==
    {"oqushy_status", "sapa_qorzhyn", "qogam_serpin", "tarbie_arnasy", "other"}

SubmitCategories ==
    {"olympiad", "methodical_leader", "social_events", "volunteering",
     "class_management", "parent_voice", "specialist_cooperation"}

SubmitLevels == {None, "city", "international", "district"}

SubmitPlaces == {None, "1", "certificate", "4"}

SubmitYears == {None, "0_1", "5_plus"}

SubmitParticipation == {None, "up_to_40", "up_to_100"}

SubmitForms ==
    {AchievementForm(t, c, l, p, y, pp) :
        t \in SubmitTypes, c \in SubmitCategories, l \in SubmitLevels,
        p \in SubmitPlaces, y \in SubmitYears, pp \in SubmitParticipation}

SubmitUploads ==
    {<<NoFile, TRUE>>,
     <<Upload("", 0), TRUE>>,
     <<Upload("a.pdf", MaxUploadBytes), TRUE>>,
     <<Upload("a.pdf", MaxUploadBytes), FALSE>>,
     <<Upload("a.pdf", MaxUploadBytes + 1), TRUE>>,
     <<Upload("", MaxUploadBytes + 1), TRUE>>}

SubmitTokens == {NoToken} \cup {SessionToken(u) : u \in UserIds}

SeedUsers ==
    Insert(Insert(EmptyTable, 1,
               [RegisteredUser(RegisterForm("ann", <<Chars(6, "x"), Chars(6, "x")>>,
                                            Profile("Teacher", "", "", "", 0), {}))
                EXCEPT !.is_admin = TRUE]),
           2, RegisteredUser(RegisterForm("bob", <<Chars(6, "x"), Chars(6, "x")>>,
                                          Profile("Teacher", "", "", "", 0), {})))

SeedForm ==
    AchievementForm("oqushy_status", "olympiad", "international", "1", None, None)

SeedRecords ==
    {[NewAchievement(2, SeedForm, None) EXCEPT !.status = "pending"],
     [NewAchievement(1, SeedForm, None) EXCEPT !.status = "approved"],
     [NewAchievement(2, SeedForm, None) EXCEPT !.status = "rejected"]}

InitSubmit ==
    /\ users = SeedUsers
    /\ achievements \in [1..(MaxAchId - 1) -> SeedRecords]
    /\ req = [op |-> "startup", uid |-> NoUser, id |-> NoUser, args |-> NoArgs]
    /\ resp = Response(200, "startup", "")

\* submissions stop once the last record key of the model is taken
NextSubmit ==
    \E free \in NewKeys(achievements, AchIds), tok \in SubmitTokens,
       f \in SubmitForms, up \in SubmitUploads :
        add_achievement(tok, f, up[1], up[2])

SpecSubmit == InitSubmit /\ [][NextSubmit]_vars

(***************************************************************************)
(* The ranking pages.  The database starts in a state the requests above   *)
(* reach: an admin and one teacher, or an admin and ten teachers (more     *)
(* accounts than /moderate lists), and records of the first two accounts   *)
(* worth 35, 10 and 50 points in every status; the requests are GET /admin *)
(* and GET /moderate by the admin and by a teacher.                        *)
(***************************************************************************)
MaxBoardUsers == 11
MaxBoardRecords == 3

BoardNames ==
    <<"ann", "bob", "t03", "t04", "t05", "t06",
      "t07", "t08", "t09", "t10", "t11", "t12">>

BoardUsers(n) ==
    [u \in 1..n |->
        [RegisteredUser(RegisterForm(BoardNames[u], <<Chars(6, "x"), Chars(6, "x")>>,
                                     Profile("Teacher", "", "", "", 0), {}))
         EXCEPT !.is_admin = (u = 1)]]

BoardForms ==
    {AchievementForm("oqushy_status", "olympiad", "city", "1", None, None),
     AchievementForm("sapa_qorzhyn", "olympiad", "city", "certificate", None, None),
     AchievementForm("oqushy_status", "olympiad", "international", "1", None, None)}

BoardRecords ==
    {[NewAchievement(u, f, None) EXCEPT !.status = st] :
        u \in {1, 2}, f \in BoardForms, st \in {"pending", "approved", "rejected"}}

BoardTokens == {SessionToken(1), SessionToken(2)}

InitBoard ==
    /\ users \in {BoardUsers(2), BoardUsers(MaxBoardUsers)}
    /\ achievements \in [1..MaxBoardRecords -> BoardRecords]
    /\ req = [op |-> "startup", uid |-> NoUser, id |-> NoUser, args |-> NoArgs]
    /\ resp = Response(200, "startup", "")

NextBoard ==
    \/ \E tok \in BoardTokens, all_users \in FetchOrders(DOMAIN users) :
           admin_panel(tok, all_users)
    \/ \E tok \in BoardTokens, all_users \in FetchOrders(DOMAIN users) :
           moderate_page(tok, all_users)

SpecBoard == InitBoard /\ [][NextBoard]_vars

(***************************************************************************)
(* Scoring over the whole classification space.  Every state starts with   *)
(* one posted form waiting to be handled (`req` holds it), an admin and a  *)
(* teacher, and every record key but the last taken; the only request is   *)
(* the teacher's POST /add-achievement of that form, without a file.       *)
(***************************************************************************)
ScoreTypes ==
    {"oqushy_status", "sapa_qorzhyn", "qogam_serpin", "tarbie_arnasy", "other"}

ScoreCategories ==
    {"olympiad", "methodical_leader", "social_events", "volunteering",
     "class_management", "parent_voice", "specialist_cooperation"}

ScoreLevels ==
    {None, "", "city", "regional", "national", "international", "district"}

ScorePlaces == {None, "1", "2", "3", "certificate", "4"}

ScoreYears == {None, "0_1", "1_2", "2_3", "3_plus", "5_plus"}

ScoreParticipation == {None, "up_to_40", "up_to_70", "up_to_90", "up_to_100"}

ScoreForms ==
    {AchievementForm(t, c, l, p, y, pp) :
        t \in ScoreTypes, c \in ScoreCategories, l \in ScoreLevels,
        p \in ScorePlaces, y \in ScoreYears, pp \in ScoreParticipation}

\* the form a client has posted to /add-achievement, before it is handled
Posted(f) == [op |-> "posted", uid |-> NoUser, id |-> NoUser, args |-> <<f>>]

InitScore ==
    /\ users = SeedUsers
    /\ achievements \in [1..(MaxAchId - 1) -> {NewAchievement(1, SeedForm, None)}]
    /\ req \in {Posted(f) : f \in ScoreForms}
    /\ resp = Response(200, "startup", "")

NextScore ==
    /\ req.op = "posted"
    /\ add_achievement(SessionToken(2), req.args[1], NoFile, TRUE)

SpecScore == InitScore /\ [][NextScore]_vars

(***************************************************************************)
(* Properties.                                                             *)
(***************************************************************************)
\* the current user of the last request was an admin when it was handled;
\* stated over a step, where req' is the request the step handles
ActorWasAdmin == req'.uid # NoUser /\ users[req'.uid].is_admin

\* records that exist before and after a step (a step never removes a
\* record and creates another, so these are the same records)
Surviving == (DOMAIN achievements) \cap (DOMAIN achievements')

Decided == {"approved", "rejected"}

\* C1 as claimed: once the status of a record is approved or rejected, no
\* request changes it to a different value.
C1_TerminalStatus ==
    [][\A a \in Surviving :
          achievements[a].status \in Decided
              => achievements'[a].status = achievements[a].status]_vars

\* C1 as amended: once the status of a record is approved or rejected it
\* never returns to pending (an admin's approve or reject may still switch
\* it between approved and rejected).
C1_NeverBackToPending ==
    [][\A a \in Surviving :
          achievements[a].status \in Decided
              => achievements'[a].status \in Decided]_vars

\* an admin's approve or reject has acted on a record that is decided
C1_Witness ==
    /\ req.op \in {"approve_achievement", "reject_achievement"}
    /\ resp = Redirect("/admin", 303)
    /\ req.id \in DOMAIN achievements
    /\ achievements[req.id].status \in Decided

\* C2: is_admin of an existing account changes only in a request whose
\* current user is an admin and is another account than the one changed.
C2_RoleChangedOnlyByOtherAdmin ==
    [][\A u \in (DOMAIN users) \cap (DOMAIN users') :
          users'[u].is_admin # users[u].is_admin
              => ActorWasAdmin /\ req'.uid # u]_vars

\* C3: the page answered by forgot-password is the page answered when no
\* account has the submitted username, whether or not one has it.
C3_ForgotPasswordSameResponse ==
    req.op = "forgot_password_post" => resp = forgot_password_page(NoUser)

\* the file step of a submission: there is no file, or it is within the
\* size limit and the media host stored it
FileStepSucceeds(file, upload_ok) ==
    HasFile(file) => (file.size <= MaxUploadBytes /\ upload_ok)

\* C4: every submission by a current user whose file step succeeds adds
\* exactly one record, pending and owned by that user, and changes no other
\* record and no account, whatever the classification fields are.
C4_SubmitCreatesPending ==
    [][(/\ req'.op = "add_achievement"
        /\ req'.uid # NoUser
        /\ FileStepSucceeds(req'.args[1], req'.args[2]))
          => (/\ \E a \in (DOMAIN achievements') \ (DOMAIN achievements) :
                    /\ DOMAIN achievements' = (DOMAIN achievements) \cup {a}
                    /\ achievements'[a].status = "pending"
                    /\ achievements'[a].user_id = req'.uid
              /\ \A b \in DOMAIN achievements : achievements'[b] = achievements[b]
              /\ users' = users)]_vars

\* a submission outside every table, with a stored file, was accepted
C4_Witness ==
    /\ req.op = "add_achievement"
    /\ req.uid = 2
    /\ HasFile(req.args[1])
    /\ \E a \in DOMAIN achievements :
          /\ achievements[a].status = "pending"
          /\ achievements[a].user_id = 2
          /\ achievements[a].achievement_type = "other"
          /\ achievements[a].file_path # None

\* C5: approve and reject by a current user who is absent or no admin
\* answer 403 and leave both tables as they were, on every such call.
C5_ModerationForbidden ==
    [][(req'.op \in {"approve_achievement", "reject_achievement"} /\ ~ActorWasAdmin)
          => (resp' = Forbidden /\ achievements' = achievements /\ users' = users)]_vars

\* a teacher's approve or reject was refused while a pending record exists
C5_Witness ==
    /\ req.op \in {"approve_achievement", "reject_achievement"}
    /\ req.uid # NoUser
    /\ resp = Forbidden
    /\ req.id \in DOMAIN achievements
    /\ achievements[req.id].status = "pending"

\* C6: approve and reject by an admin with an id that matches no record
\* change no table and answer something else than a successful approval
\* or rejection does.
C6_UnknownRecordDistinguishable ==
    [][(/\ req'.op \in {"approve_achievement", "reject_achievement"}
        /\ ActorWasAdmin
        /\ req'.id \notin DOMAIN achievements)
          => (/\ resp' # Redirect("/admin", 303)
              /\ achievements' = achievements
              /\ users' = users)]_vars

\* C7: an admin's approve straight after a successful approve of the same
\* record, and a reject straight after a reject, change nothing: the record
\* keeps the status the first call gave it.
C7_Idempotent ==
    [][(/\ req.op \in {"approve_achievement", "reject_achievement"}
        /\ resp = Redirect("/admin", 303)
        /\ req.id \in DOMAIN achievements
        /\ req'.op = req.op
        /\ req'.id = req.id
        /\ ActorWasAdmin)
          => (/\ achievements' = achievements
              /\ users' = users
              /\ achievements'[req.id].status =
                     IF req.op = "approve_achievement" THEN "approved" ELSE "rejected")]_vars

\* a record decided by an admin: the state in which the call is repeated
C7_Witness ==
    /\ req.op = "reject_achievement"
    /\ resp = Redirect("/admin", 303)
    /\ req.id \in DOMAIN achievements
    /\ achievements[req.id].status = "rejected"
    /\ \E u \in DOMAIN users : users[u].is_admin

\* C8: delete of a record by a current user who is neither its owner nor
\* an admin answers 403 and leaves the record, and everything else, as it was.
C8_DeleteByStrangerForbidden ==
    [][(/\ req'.op = "delete_achievement"
        /\ req'.uid # NoUser
        /\ ~ActorWasAdmin
        /\ req'.id \in DOMAIN achievements
        /\ achievements[req'.id].user_id # req'.uid)
          => (resp' = Forbidden /\ achievements' = achievements /\ users' = users)]_vars

\* C9: a successful delete-user of account T by an admin removes T and
\* every record of T, whatever its status, and leaves every other account
\* and every record of another account as it was.
C9_DeleteCascades ==
    [][(req'.op = "delete_user" /\ resp' = Redirect("/admin?success=user_deleted", 303))
          => (/\ ActorWasAdmin
              /\ req'.id \in DOMAIN users
              /\ users' = Delete(users, {req'.id})
              /\ \A a \in DOMAIN achievements' : achievements'[a].user_id # req'.id
              /\ \A a \in DOMAIN achievements :
                     achievements[a].user_id # req'.id
                         => (a \in DOMAIN achievements' /\ achievements'[a] = achievements[a])
              /\ DOMAIN achievements' \subseteq DOMAIN achievements)]_vars

\* an account was deleted, and a record of another account is still there
C9_Witness ==
    /\ req.op = "delete_user"
    /\ resp = Redirect("/admin?success=user_deleted", 303)
    /\ req.id \notin DOMAIN users
    /\ \E a \in DOMAIN achievements : achievements[a].status = "approved"

\* C10: delete-user by an admin whose target is the admin itself is refused
\* and leaves the account and all records in place.
C10_NoSelfDelete ==
    [][(req'.op = "delete_user" /\ ActorWasAdmin /\ req'.id = req'.uid)
          => (/\ resp' = Redirect("/admin?error=cannot_delete_yourself", 303)
              /\ users' = users
              /\ achievements' = achievements)]_vars

\* an admin that owns a record asked to delete itself and is still there
C10_Witness ==
    /\ req.op = "delete_user"
    /\ req.id = req.uid
    /\ req.uid \in DOMAIN users
    /\ users[req.uid].is_admin
    /\ resp = Redirect("/admin?error=cannot_delete_yourself", 303)
    /\ \E a \in DOMAIN achievements : achievements[a].user_id = req.uid

\* C11: delete-user by a current user who is absent or no admin is refused
\* (it answers the redirect to /home, not the success redirect) and leaves
\* every account and every record in place, whatever the target id is.
C11_DeleteUserRequiresAdmin ==
    [][(req'.op = "delete_user" /\ ~ActorWasAdmin)
          => (/\ resp' = Redirect("/home", 303)
              /\ resp' # Redirect("/admin?success=user_deleted", 303)
              /\ users' = users
              /\ achievements' = achievements)]_vars

\* a teacher asked to delete another account that owns a record; both the
\* account and the record are still there
C11_Witness ==
    /\ req.op = "delete_user"
    /\ req.uid \in DOMAIN users
    /\ ~users[req.uid].is_admin
    /\ req.id \in DOMAIN users
    /\ req.id # req.uid
    /\ resp = Redirect("/home", 303)
    /\ \E a \in DOMAIN achievements : achievements[a].user_id = req.id

\* C12: every account that a registration creates has is_admin = FALSE,
\* whatever the posted form holds, an `is_admin` field included.
C12_RegisterLowestRole ==
    [][req'.op = "register_post"
          => \A u \in (DOMAIN users') \ (DOMAIN users) : ~users'[u].is_admin]_vars

\* a registration that posted an `is_admin` field created an account
C12_Witness ==
    /\ req.op = "register_post"
    /\ "is_admin" \in req.args[1].undeclared
    /\ \E u \in DOMAIN users :
          /\ resp.cookie = {SessionToken(u)}
          /\ users[u].username = req.args[1].username
          /\ ~users[u].is_admin

\* C13: a registration whose username has fewer than 3 characters or whose
\* password has fewer than 6 answers the form again with the validation
\* error and creates no account; one with a username of 3 or more
\* characters that no account has, a password of exactly 6 characters and
\* the same confirmation creates the account and signs it in.
C13_RegisterValidation ==
    [][req'.op = "register_post"
          => LET f == req'.args[1]
             IN  /\ (Len(f.username) < 3 \/ Len(f.password) < 6)
                       => (/\ resp'.kind = "template"
                           /\ resp'.error \in {"error_short_username",
                                               "error_short_password"}
                           /\ resp'.cookie = {}
                           /\ users' = users
                           /\ achievements' = achievements)
                 /\ (/\ Len(f.username) >= 3
                     /\ Len(f.password) = 6
                     /\ f.confirm_password = f.password
                     /\ \A u \in DOMAIN users : users[u].username # f.username)
                       => \E u \in (DOMAIN users') \ (DOMAIN users) :
                              /\ DOMAIN users' = (DOMAIN users) \cup {u}
                              /\ users'[u].username = f.username
                              /\ resp' = SetCookie(Redirect("/home", 303),
                                                   SessionToken(u))]_vars

\* a registration with a free username of three characters and a password
\* of five was refused for the password, next to an account registered
\* with a password of six
C13_Witness ==
    /\ req.op = "register_post"
    /\ Len(req.args[1].username) = 3
    /\ Len(req.args[1].password) = 5
    /\ req.args[1].confirm_password = req.args[1].password
    /\ \A u \in DOMAIN users : users[u].username # req.args[1].username
    /\ resp = TemplateError("register.html", "error_short_password")
    /\ \E u \in DOMAIN users : users[u].password_hash = hash_password(Chars(6, "x"))

\* no two accounts have the same username
UniqueUsernames ==
    \A u, v \in DOMAIN users : u # v => users[u].username # users[v].username

\* C14: in every reachable state no two accounts have the same username,
\* and a registration or an admin's create-user with a username that an
\* account already has answers an error and leaves the accounts as they were.
C14_UniqueUsername ==
    /\ []UniqueUsernames
    /\ [][(/\ req'.op \in {"register_post", "create_user"}
           /\ \E u \in DOMAIN users : users[u].username = req'.args[1].username)
             => (/\ users' = users
                 /\ resp'.cookie = {}
                 /\ resp' # Redirect("/admin?success=user_created", 303)
                 /\ (req'.op = "create_user" /\ ActorWasAdmin)
                       => resp' = Redirect("/admin?error=username_exists", 303))]_vars

\* an admin's create-user with the username of one of two accounts was
\* refused
C14_Witness ==
    /\ req.op = "create_user"
    /\ resp = Redirect("/admin?error=username_exists", 303)
    /\ Cardinality(DOMAIN users) = 2
    /\ \E u \in DOMAIN users : users[u].username = req.args[1].username

\* the approved records of an account that are worth p points
ApprovedWorth(u, p) ==
    {a \in DOMAIN achievements :
        /\ achievements[a].user_id = u
        /\ achievements[a].status = "approved"
        /\ achievements[a].points = p}

RECURSIVE Weighted(_, _)
\* the sum over the point values p in P of p times the number of approved
\* records of account u worth p
Weighted(u, P) ==
    IF P = {} THEN 0
    ELSE LET p == CHOOSE x \in P : TRUE
         IN  p * Cardinality(ApprovedWorth(u, p)) + Weighted(u, P \ {p})

\* the score of an account: the points of its approved records, summed
ApprovedScore(u) ==
    Weighted(u, {achievements[a].points : a \in DOMAIN achievements})

\* the ranking the last response was rendered with
Ranking == IF req.op = "moderate_page" THEN resp.top_teachers ELSE resp.user_data

\* C15: the points that the ranking of /admin and of /moderate reports
\* for an account are the sum of the points of the records of that account
\* whose status is approved; its pending and rejected records and the
\* records of other accounts add nothing.
C15_ScoreIsApprovedSum ==
    (req.op \in {"admin_panel", "moderate_page"} /\ resp.kind = "template")
        => \A i \in DOMAIN Ranking :
               Ranking[i].points = ApprovedScore(Ranking[i].user)

\* /admin reports 45 for an account with approved records of 35 and 10
\* points and 0 for an account whose only record is a pending one of 50
C15_Witness ==
    /\ req.op = "admin_panel"
    /\ resp.kind = "template"
    /\ \E i, j \in DOMAIN resp.user_data :
          /\ resp.user_data[i].points = 45
          /\ resp.user_data[j].points = 0
          /\ \E a, b, c \in DOMAIN achievements :
                /\ achievements[a].user_id = resp.user_data[i].user
                /\ achievements[a].points = 35
                /\ achievements[a].status = "approved"
                /\ achievements[b].user_id = resp.user_data[i].user
                /\ achievements[b].points = 10
                /\ achievements[b].status = "approved"
                /\ achievements[c].user_id = resp.user_data[j].user
                /\ achievements[c].points = 50
                /\ achievements[c].status = "pending"

\* the rows of the ranking are in non-increasing order of points
NonIncreasing(rows) ==
    \A i, j \in DOMAIN rows : i < j => rows[i].points >= rows[j].points

Listed(rows) == {rows[i].user : i \in DOMAIN rows}

\* C16 as claimed: the ranking of /admin and of /moderate is in
\* non-increasing order of points and lists every existing account.
C16_RankingListsEveryAccount ==
    (req.op \in {"admin_panel", "moderate_page"} /\ resp.kind = "template")
        => (NonIncreasing(Ranking) /\ Listed(Ranking) = DOMAIN users)

\* C16 as amended: both rankings are in non-increasing order of points and
\* list no account twice; the one of /admin lists every existing account,
\* those without an approved record with 0 points; the one of /moderate
\* lists the first ten rows of that order only, so that with more than ten
\* accounts the remaining ones, none of which has more points than a
\* listed one, are absent.
C16_RankingSortedTopTen ==
    (req.op \in {"admin_panel", "moderate_page"} /\ resp.kind = "template")
        => (/\ NonIncreasing(Ranking)
            /\ Listed(Ranking) \subseteq DOMAIN users
            /\ Cardinality(Listed(Ranking)) = Len(Ranking)
            /\ req.op = "admin_panel" => Listed(Ranking) = DOMAIN users
            /\ req.op = "moderate_page"
                  => (/\ Len(Ranking) = Min(10, Cardinality(DOMAIN users))
                      /\ \A u \in (DOMAIN users) \ Listed(Ranking) :
                             \A i \in DOMAIN Ranking :
                                 ApprovedScore(u) <= Ranking[i].points)
            /\ \A i \in DOMAIN Ranking :
                   ApprovedWorth(Ranking[i].user, 35) \cup ApprovedWorth(Ranking[i].user, 10)
                       \cup ApprovedWorth(Ranking[i].user, 50) = {}
                     => Ranking[i].points = 0)

\* /moderate on eleven accounts listed ten of them, accounts with points
\* before accounts with none
C16_Witness ==
    /\ req.op = "moderate_page"
    /\ resp.kind = "template"
    /\ Cardinality(DOMAIN users) = 11
    /\ Len(resp.top_teachers) = 10
    /\ resp.top_teachers[1].points > resp.top_teachers[2].points
    /\ resp.top_teachers[2].points > 0
    /\ resp.top_teachers[10].points = 0

\* the form the step handles, in a step from a state with a posted form
Submitted == req.args[1]

\* the records the step added
Added == (DOMAIN achievements') \ (DOMAIN achievements)

\* the step stored the posted form as one new record worth p points
StoredWith(p) ==
    /\ resp' = Redirect("/" \o Dashed(Submitted.achievement_type) \o "?success=added", 303)
    /\ Cardinality(Added) = 1
    /\ \A a \in Added :
          /\ achievements'[a].points = p
          /\ achievements'[a].status = "pending"
          /\ achievements'[a].achievement_type = Submitted.achievement_type
          /\ achievements'[a].category = Submitted.category

CompetitiveLevels == <<"city", "regional", "national", "international">>

\* the row of a place in the level x place table, in the order of
\* CompetitiveLevels
CompetitiveRow ==
    ("1" :> <<35, 40, 45, 50>>) @@ ("2" :> <<30, 35, 40, 45>>)
    @@ ("3" :> <<25, 30, 35, 40>>) @@ ("certificate" :> <<10, 15, 20, 25>>)

\* C17: a submission of type oqushy_status or sapa_qorzhyn with a level
\* among city, regional, national, international and a place among 1, 2,
\* 3, certificate is stored with the points of the level x place table.
C17_CompetitiveTable ==
    [][(/\ req.op = "posted"
        /\ Submitted.achievement_type \in {"oqushy_status", "sapa_qorzhyn"})
          => \A i \in DOMAIN CompetitiveLevels, pl \in DOMAIN CompetitiveRow :
                 (Submitted.level = CompetitiveLevels[i] /\ Submitted.place = pl)
                     => StoredWith(CompetitiveRow[pl][i])]_vars

\* a sapa_qorzhyn record for a certificate at national level, worth 20
C17_Witness ==
    /\ req.op = "add_achievement"
    /\ \E a \in DOMAIN achievements :
          /\ achievements[a].achievement_type = "sapa_qorzhyn"
          /\ achievements[a].level = "national"
          /\ achievements[a].place = "certificate"
          /\ achievements[a].points = 20
          /\ achievements[a].user_id = 2

\* the classification has an entry in one of the tables: the level x place
\* table of the two competitive types, the years table of methodical_leader
\* and class_management, the level tables of social_events and
\* volunteering, the participation table of parent_voice, or the flat rate
\* of specialist_cooperation, each under the type it belongs to
InDefinedTable(f) ==
    \/ /\ f.achievement_type \in {"oqushy_status", "sapa_qorzhyn"}
       /\ f.level \in {"city", "regional", "national", "international"}
       /\ f.place \in {"1", "2", "3", "certificate"}
    \/ /\ f.achievement_type = "qogam_serpin"
       /\ \/ /\ f.category = "methodical_leader"
             /\ f.years_experience \in {"0_1", "1_2", "2_3", "3_plus"}
          \/ /\ f.category \in {"social_events", "volunteering"}
             /\ f.level \in {"city", "regional", "national"}
    \/ /\ f.achievement_type = "tarbie_arnasy"
       /\ \/ /\ f.category = "class_management"
             /\ f.years_experience \in {"0_1", "1_2", "2_3", "3_plus"}
          \/ /\ f.category = "parent_voice"
             /\ f.parent_participation \in {"up_to_40", "up_to_70", "up_to_90"}
          \/ f.category = "specialist_cooperation"

\* C18: a submission whose classification has no entry in any table (an
\* unknown type, an unknown or missing level, place or bracket, a category
\* the type has no table for) is accepted and stored with 0 points.
C18_OutsideTablesScoresZero ==
    [][(req.op = "posted" /\ ~InDefinedTable(Submitted)) => StoredWith(0)]_vars

\* a record of an unknown type was stored with 0 points although its level
\* and place are those of a table entry
C18_Witness ==
    /\ req.op = "add_achievement"
    /\ resp = Redirect("/other?success=added", 303)
    /\ \E a \in DOMAIN achievements :
          /\ achievements[a].achievement_type = "other"
          /\ achievements[a].level = "international"
          /\ achievements[a].place = "1"
          /\ achievements[a].points = 0
          /\ achievements[a].status = "pending"

\* the categories that have a table, by the type they belong to
TypeCategories ==
    ("qogam_serpin" :> {"methodical_leader", "social_events", "volunteering"})
    @@ ("tarbie_arnasy" :> {"class_management", "parent_voice", "specialist_cooperation"})

\* the category of the form belongs to another type than the form's own
ForeignCategory(f) ==
    \E t \in DOMAIN TypeCategories :
        t # f.achievement_type /\ f.category \in TypeCategories[t]

\* C19: a submission whose category belongs to another type than its
\* achievement_type is scored by no table: it is stored with 0 points,
\* whatever its level, place, years and participation fields are.
C19_ForeignCategoryScoresZero ==
    [][(req.op = "posted" /\ ForeignCategory(Submitted)) => StoredWith(0)]_vars

\* the points of the brackets, in the order of the list of brackets
YearsBrackets == <<"0_1", "1_2", "2_3", "3_plus">>
YearsScores == <<10, 15, 20, 25>>
ParticipationBrackets == <<"up_to_40", "up_to_70", "up_to_90">>
ParticipationScores == <<10, 20, 30>>
SocialLevels == <<"city", "regional", "national">>
SocialEventsScores == <<10, 15, 20>>
VolunteeringScores == <<25, 30, 35>>

\* C20: a submission in a non-competitive category under its type is
\* stored with the points of its bracket: methodical_leader (qogam_serpin)
\* and class_management (tarbie_arnasy) 10/15/20/25 by years, parent_voice
\* 10/20/30 by participation, social_events 10/15/20 and volunteering
\* 25/30/35 by level, and specialist_cooperation 10 whatever the level,
\* place, years and participation fields are.
C20_BracketTables ==
    [][req.op = "posted"
          => LET f == Submitted
             IN  /\ \A i \in DOMAIN YearsBrackets :
                        (/\ f.years_experience = YearsBrackets[i]
                         /\ \/ /\ f.achievement_type = "qogam_serpin"
                               /\ f.category = "methodical_leader"
                            \/ /\ f.achievement_type = "tarbie_arnasy"
                               /\ f.category = "class_management")
                          => StoredWith(YearsScores[i])
                 /\ \A i \in DOMAIN ParticipationBrackets :
                        (/\ f.parent_participation = ParticipationBrackets[i]
                         /\ f.achievement_type = "tarbie_arnasy"
                         /\ f.category = "parent_voice")
                          => StoredWith(ParticipationScores[i])
                 /\ \A i \in DOMAIN SocialLevels :
                        (f.level = SocialLevels[i] /\ f.achievement_type = "qogam_serpin")
                          => /\ f.category = "social_events"
                                 => StoredWith(SocialEventsScores[i])
                             /\ f.category = "volunteering"
                                 => StoredWith(VolunteeringScores[i])
                 /\ (f.achievement_type = "tarbie_arnasy"
                        /\ f.category = "specialist_cooperation")
                          => StoredWith(10)]_vars

\* a volunteering record at national level, worth 35, whose form also
\* carried a place
C20_Witness ==
    /\ req.op = "add_achievement"
    /\ \E a \in DOMAIN achievements :
          /\ achievements[a].achievement_type = "qogam_serpin"
          /\ achievements[a].category = "volunteering"
          /\ achievements[a].level = "national"
          /\ achievements[a].place = "1"
          /\ achievements[a].points = 35

\* C21: a request changes nothing but the status of a record that is still
\* there after it: the owner, the points, the classification fields and the
\* file reference are those stored at submission, so the points of every
\* record are the points computed from a submitted form.
C21_RecordFixedAtSubmission ==
    /\ [](\A a \in DOMAIN achievements :
             \E f \in AchievementForms :
                 /\ achievements[a].points = calculated_points(f)
                 /\ achievements[a].achievement_type = f.achievement_type
                 /\ achievements[a].category = f.category
                 /\ achievements[a].level = f.level
                 /\ achievements[a].place = f.place)
    /\ [][\A a \in Surviving :
             [achievements'[a] EXCEPT !.status = achievements[a].status]
                 = achievements[a]]_vars

\* an admin has rejected another account's record, which keeps its owner
\* and its 50 points
C21_Witness ==
    /\ req.op = "reject_achievement"
    /\ resp = Redirect("/admin", 303)
    /\ req.id \in DOMAIN achievements
    /\ achievements[req.id].status = "rejected"
    /\ achievements[req.id].user_id # req.uid
    /\ achievements[req.id].points = 50

\* the step answered the redirect with this error, for some type's page
AnsweredError(error) ==
    \E t \in SubmitTypes : resp' = Redirect("/" \o Dashed(t) \o "?error=" \o error, 303)

\* C22: a submission by a signed-in user with a named file one byte over
\* the limit of 10 MB answers file_too_large and creates no record; with a
\* file of exactly the limit the size check passes: it never answers
\* file_too_large, and when the media host stores the file it creates one
\* record that refers to the stored file.
C22_SizeLimitBoundary ==
    [][(req'.op = "add_achievement" /\ req'.uid # NoUser /\ HasFile(req'.args[1]))
          => LET file == req'.args[1]
                 upload_ok == req'.args[2]
             IN  /\ file.size = MaxUploadBytes + 1
                       => (/\ AnsweredError("file_too_large")
                           /\ achievements' = achievements
                           /\ users' = users)
                 /\ file.size = MaxUploadBytes
                       => (/\ ~AnsweredError("file_too_large")
                           /\ upload_ok
                                 => \E a \in (DOMAIN achievements') \ (DOMAIN achievements) :
                                        /\ DOMAIN achievements' = (DOMAIN achievements) \cup {a}
                                        /\ achievements'[a].file_path = SecureUrl(file)
                                        /\ achievements'[a].user_id = req'.uid)]_vars

\* a submission with a file of exactly 10 MB was stored with its file
C22_Witness ==
    /\ req.op = "add_achievement"
    /\ req.uid # NoUser
    /\ req.args[1].size = MaxUploadBytes
    /\ req.args[2]
    /\ \E t \in SubmitTypes : resp = Redirect("/" \o Dashed(t) \o "?success=added", 303)
    /\ \E a \in DOMAIN achievements :
          /\ achievements[a].file_path = SecureUrl(req.args[1])
          /\ achievements[a].user_id = req.uid
          /\ \A b \in DOMAIN achievements : b <= a

\* C23: a submission by a signed-in user whose named file passes the size
\* check and that the media host fails to store answers upload_failed and
\* creates no record; and every record that a submission with a named file
\* creates refers to the stored file.
C23_UploadFailureFailsSubmission ==
    [][(req'.op = "add_achievement" /\ req'.uid # NoUser /\ HasFile(req'.args[1]))
          => LET file == req'.args[1]
                 upload_ok == req'.args[2]
             IN  /\ (file.size <= MaxUploadBytes /\ ~upload_ok)
                       => (/\ AnsweredError("upload_failed")
                           /\ achievements' = achievements
                           /\ users' = users)
                 /\ \A a \in (DOMAIN achievements') \ (DOMAIN achievements) :
                        /\ achievements'[a].file_path # None
                        /\ achievements'[a].file_path = SecureUrl(file)]_vars

\* the media host failed on a file within the limit and the submission
\* was refused
C23_Witness ==
    /\ req.op = "add_achievement"
    /\ req.uid # NoUser
    /\ HasFile(req.args[1])
    /\ req.args[1].size <= MaxUploadBytes
    /\ ~req.args[2]
    /\ \E t \in SubmitTypes : resp = Redirect("/" \o Dashed(t) \o "?error=upload_failed", 303)
    /\ \A a \in DOMAIN achievements : achievements[a].file_path = None

\* cookies that carry no valid session: none, one with a bad signature,
\* one past its max_age, one signed for another purpose
InvalidTokens ==
    {NoToken, ForgedToken}
    \cup {Expire(SessionToken(u)) : u \in UserIds}
    \cup {ResetToken(u) : u \in UserIds}

StateChangingOps ==
    {"add_achievement", "approve_achievement", "reject_achievement",
     "delete_achievement", "create_user", "delete_user", "update_profile",
     "make_me_admin"}

\* what the handlers answer to a request without a current user
AnonymousAnswers ==
    {Redirect("/login", 307), Redirect("/login", 303), Redirect("/home", 303), Forbidden}

\* C24: a missing, forged, expired or wrongly salted session cookie
\* resolves to no current user in every reachable state, and a submit,
\* approve, reject, delete, create-user, delete-user, update-profile or
\* make-me-admin request without a current user is answered with the
\* handler's redirect or 403 and changes no account and no record.
C24_InvalidTokenIsAnonymous ==
    /\ [](\A tok \in InvalidTokens : get_current_user(tok) = NoUser)
    /\ [][(req'.op \in StateChangingOps /\ req'.uid = NoUser)
             => (/\ resp' \in AnonymousAnswers
                 /\ users' = users
                 /\ achievements' = achievements)]_vars

\* an update-profile without a current user was sent to the login page
\* while the account the expired cookie was signed for exists
C24_Witness ==
    /\ req.op = "update_profile"
    /\ req.uid = NoUser
    /\ resp = Redirect("/login", 303)
    /\ 1 \in DOMAIN users
    /\ get_current_user(Expire(SessionToken(1))) = NoUser
    /\ get_current_user(SessionToken(1)) = 1
    /\ DOMAIN achievements # {}

\* C25: no request changes the username of an account that exists before
\* and after it; and update-profile creates and deletes nothing, changes no
\* other account than the current user's, and of that one only full_name,
\* school, subject and experience: the username, the role, the password
\* hash and the category column are as before.
C25_UsernameImmutable ==
    [][/\ \A u \in (DOMAIN users) \cap (DOMAIN users') :
              users'[u].username = users[u].username
       /\ req'.op = "update_profile"
             => (/\ DOMAIN users' = DOMAIN users
                 /\ achievements' = achievements
                 /\ \A u \in DOMAIN users :
                        /\ u # req'.uid => users'[u] = users[u]
                        /\ [users'[u] EXCEPT !.full_name = users[u].full_name,
                                             !.school = users[u].school,
                                             !.subject = users[u].subject,
                                             !.experience = users[u].experience]
                               = users[u])]_vars

\* an account has updated its profile next to one that has not; it still
\* has its username
C25_Witness ==
    /\ req.op = "update_profile"
    /\ resp = Redirect("/edit-profile?success=updated", 303)
    /\ req.uid \in DOMAIN users
    /\ users[req.uid].school = "School 1"
    /\ users[req.uid].username \in Usernames
    /\ \E v \in DOMAIN users : v # req.uid /\ users[v].school = ""

\* C26: in every reachable state the user_id of every record is the id of
\* an existing account.
C26_OwnerExists ==
    \A a \in DOMAIN achievements : achievements[a].user_id \in DOMAIN users

\* an account was deleted and a record of the remaining account is there
C26_Witness ==
    /\ req.op = "delete_user"
    /\ resp = Redirect("/admin?success=user_deleted", 303)
    /\ Cardinality(DOMAIN users) = 1
    /\ \E a \in DOMAIN achievements : achievements[a].user_id \in DOMAIN users

Admins == {u \in DOMAIN users : users[u].is_admin}

\* C27: a request handled in a state with at least one admin account
\* leaves at least one admin account.
C27_AdminsNeverEmpty ==
    [][Admins # {} => Admins' # {}]_vars

\* the only admin asked to delete itself, next to a teacher, and is still
\* the admin
C27_Witness ==
    /\ req.op = "delete_user"
    /\ req.id = req.uid
    /\ Admins = {req.uid}
    /\ Cardinality(DOMAIN users) = 2
    /\ resp = Redirect("/admin?error=cannot_delete_yourself", 303)

====
